---- MODULE Spec2Model ----
(***************************************************************************)
(* LogiCam Control: the interactive control/state engine of src/src/ui.tsx *)
(* (the App component) on top of the device backend of src/src/webcam.ts   *)
(* (WebcamController).  The device itself is the v4l2 driver behind        *)
(* v4l2-ctl: a record of control values and a video format.  Every         *)
(* v4l2-ctl execution may succeed or throw; its outcome is an input of the *)
(* action that makes the call.                                             *)
(***************************************************************************)
EXTENDS Integers, Sequences, FiniteSets, TLC

VARIABLES
    dev,              \* the device behind v4l2-ctl: [ctl: control -> Int, fmt: video format]
    currentSettings,  \* ui.tsx:35  useState<WebcamSettings>
    currentFormat,    \* ui.tsx:38  useState<VideoFormat>
    selectedIndex,    \* ui.tsx:41
    deviceBusy,       \* ui.tsx:42
    dialog,           \* ui.tsx:43
    notification,     \* ui.tsx:44
    timers,           \* pending setTimeout callbacks of showNotification: remaining ms, oldest first
    exited,           \* exit() of useApp has been called
    calls,            \* backend calls made by the most recent key handler, in order
    caller,           \* the key event whose handler made them ("none" when it made none)
    opsDone           \* number of key handlers so far that wrote to the device

vars == <<dev, currentSettings, currentFormat, selectedIndex, deviceBusy,
          dialog, notification, timers, exited, calls, caller, opsDone>>

-----------------------------------------------------------------------------
(* Bounds of the exploration *)

\* key handlers that write to the device, per behaviour
MaxOps == 1
\* pending notification timers
MaxTimers == 2
\* granularity of the clock, in ms
TickMs == 1000
\* scalar setters that fail inside one composite operation
MaxScalarFailures == 1
\* key handlers that write to the device, per behaviour of a two-adjustment session
MaxBusyOps == 2

-----------------------------------------------------------------------------
(* JavaScript helpers *)

Max(a, b) == IF a >= b THEN a ELSE b
Min(a, b) == IF a <= b THEN a ELSE b

\* x || d for a number x: 0 (and NaN, undefined) is falsy
OrElse(x, d) == IF x = 0 THEN d ELSE x

\* Array.prototype.indexOf on a sequence, 0-based, -1 when absent
RECURSIVE IndexFrom(_, _, _)
IndexFrom(seq, v, i) ==
    IF i > Len(seq) THEN -1
    ELSE IF seq[i] = v THEN i - 1
    ELSE IndexFrom(seq, v, i + 1)

IndexOf(seq, v) == IndexFrom(seq, v, 1)

\* Array.prototype.join
RECURSIVE Join(_, _)
Join(seq, sep) ==
    IF Len(seq) = 0 THEN ""
    ELSE IF Len(seq) = 1 THEN seq[1]
    ELSE seq[1] \o sep \o Join(Tail(seq), sep)

-----------------------------------------------------------------------------
(* The device backend: src/src/webcam.ts *)

Controls ==
    {"brightness", "contrast", "saturation", "sharpness", "gain",
     "auto_exposure", "focus_automatic_continuous", "white_balance_automatic",
     "power_line_frequency", "exposure_time_absolute", "focus_absolute",
     "white_balance_temperature", "backlight_compensation"}

\* getControl of getCurrentSettings: the parsed value, 0 when v4l2-ctl throws
getControl(d, control, readable) ==
    IF control \in readable THEN OrElse(d.ctl[control], 0) ELSE 0

getCurrentSettings(d, readable) ==
    [brightness         |-> OrElse(getControl(d, "brightness", readable), 128),
     contrast           |-> OrElse(getControl(d, "contrast", readable), 128),
     saturation         |-> OrElse(getControl(d, "saturation", readable), 128),
     sharpness          |-> OrElse(getControl(d, "sharpness", readable), 128),
     gain               |-> OrElse(getControl(d, "gain", readable), 0),
     autoExposure       |-> getControl(d, "auto_exposure", readable) = 3,
     autoFocus          |-> getControl(d, "focus_automatic_continuous", readable) = 1,
     autoWhiteBalance   |-> getControl(d, "white_balance_automatic", readable) = 1,
     powerLineFrequency |-> OrElse(getControl(d, "power_line_frequency", readable), 2),
     exposureValue      |-> OrElse(getControl(d, "exposure_time_absolute", readable), 250),
     focusValue         |-> OrElse(getControl(d, "focus_absolute", readable), 0),
     whiteBalanceValue  |-> OrElse(getControl(d, "white_balance_temperature", readable), 4000)]

DefaultVideoFormat ==
    [width |-> 640, height |-> 480, pixelFormat |-> "YUYV", frameRate |-> 30]

\* how one execution of v4l2-ctl ends: exit status 0, or a throw whose
\* message does or does not contain "Device or resource busy"
ExecOutcomes == {"OK", "DEVICE_BUSY", "UNKNOWN"}

\* the catch branch returns the fixed default record
getCurrentVideoFormat(d, outcome) ==
    IF outcome = "OK" THEN d.fmt ELSE DefaultVideoFormat

getDeviceStatus(outcome) ==
    CASE outcome = "OK" -> [available |-> TRUE, inUse |-> FALSE]
      [] outcome = "DEVICE_BUSY" -> [available |-> TRUE, inUse |-> TRUE]
      [] OTHER -> [available |-> FALSE, inUse |-> FALSE]

setControl(d, control, value, ok) ==
    [dev |-> IF ok THEN [d EXCEPT !.ctl[control] = value] ELSE d,
     ret |-> ok]

setBrightness(d, value, ok) == setControl(d, "brightness", Max(0, Min(255, value)), ok)
setContrast(d, value, ok) == setControl(d, "contrast", Max(0, Min(255, value)), ok)
setSaturation(d, value, ok) == setControl(d, "saturation", Max(0, Min(255, value)), ok)
setSharpness(d, value, ok) == setControl(d, "sharpness", Max(0, Min(255, value)), ok)
setGain(d, value, ok) == setControl(d, "gain", Max(0, Min(255, value)), ok)
setAutoExposure(d, enabled, ok) ==
    setControl(d, "auto_exposure", IF enabled THEN 3 ELSE 1, ok)
setAutoFocus(d, enabled, ok) ==
    setControl(d, "focus_automatic_continuous", IF enabled THEN 1 ELSE 0, ok)
setAutoWhiteBalance(d, enabled, ok) ==
    setControl(d, "white_balance_automatic", IF enabled THEN 1 ELSE 0, ok)
setPowerLineFrequency(d, frequency, ok) ==
    setControl(d, "power_line_frequency", Max(0, Min(2, frequency)), ok)
setExposureValue(d, value, ok) ==
    setControl(d, "exposure_time_absolute", Max(3, Min(2047, value)), ok)
setFocusValue(d, value, ok) ==
    setControl(d, "focus_absolute", Max(0, Min(250, value)), ok)
setWhiteBalanceValue(d, value, ok) ==
    setControl(d, "white_balance_temperature", Max(2000, Min(6500, value)), ok)

setVideoFormat(d, width, height, pixelFormat, outcome) ==
    [dev |-> IF outcome = "OK"
             THEN [d EXCEPT !.fmt.width = width, !.fmt.height = height,
                            !.fmt.pixelFormat = pixelFormat]
             ELSE d,
     success |-> outcome = "OK",
     error |-> outcome]

setFrameRate(d, fps, outcome) ==
    [dev |-> IF outcome = "OK" THEN [d EXCEPT !.fmt.frameRate = fps] ELSE d,
     success |-> outcome = "OK",
     error |-> outcome]

\* one entry of the call log: the backend method, its arguments, what it returned
Call(fn, args, ret) == [fn |-> fn, args |-> args, ret |-> ret]

\* one scalar step of a composite operation
Step(fn, arg) == [fn |-> fn, arg |-> arg]

\* the scalar setters by name
Setter(d, fn, arg, ok) ==
    CASE fn = "setBrightness" -> setBrightness(d, arg, ok)
      [] fn = "setContrast" -> setContrast(d, arg, ok)
      [] fn = "setSaturation" -> setSaturation(d, arg, ok)
      [] fn = "setSharpness" -> setSharpness(d, arg, ok)
      [] fn = "setGain" -> setGain(d, arg, ok)
      [] fn = "setAutoExposure" -> setAutoExposure(d, arg, ok)
      [] fn = "setAutoFocus" -> setAutoFocus(d, arg, ok)
      [] fn = "setAutoWhiteBalance" -> setAutoWhiteBalance(d, arg, ok)
      [] fn = "setPowerLineFrequency" -> setPowerLineFrequency(d, arg, ok)
      [] fn = "setExposureValue" -> setExposureValue(d, arg, ok)
      [] fn = "setFocusValue" -> setFocusValue(d, arg, ok)
      [] fn = "setWhiteBalanceValue" -> setWhiteBalanceValue(d, arg, ok)
      [] fn = "setControl:backlight_compensation" ->
            setControl(d, "backlight_compensation", arg, ok)

\* a run of scalar setter calls, in program order; the setters named in
\* `failed` are the ones whose v4l2-ctl execution throws
RECURSIVE RunSetters(_, _, _)
RunSetters(d, steps, failed) ==
    LET then(r) ==
            LET join(rest) ==
                    [dev |-> rest.dev,
                     trace |-> <<Call(steps[1].fn, <<steps[1].arg>>, r.ret)>> \o rest.trace]
            IN  join(RunSetters(r.dev, Tail(steps), failed))
    IN  IF Len(steps) = 0 THEN [dev |-> d, trace |-> <<>>]
        ELSE then(Setter(d, steps[1].fn, steps[1].arg, steps[1].fn \notin failed))

OptimalControls ==
    <<Step("setAutoExposure", TRUE), Step("setAutoFocus", TRUE),
      Step("setAutoWhiteBalance", TRUE), Step("setPowerLineFrequency", 2),
      Step("setSaturation", 128), Step("setSharpness", 128),
      Step("setBrightness", 128), Step("setContrast", 128)>>

DefaultControls ==
    <<Step("setBrightness", 128), Step("setContrast", 128),
      Step("setSaturation", 128), Step("setSharpness", 128),
      Step("setGain", 0), Step("setAutoExposure", FALSE),
      Step("setAutoFocus", FALSE), Step("setAutoWhiteBalance", TRUE),
      Step("setPowerLineFrequency", 1),
      Step("setControl:backlight_compensation", 0)>>

\* variant: a failed format change skips the scalar setters
webcam_applyOptimalSettings_stopOnFailure(d, fmtOutcome, fpsOutcome, failed) ==
    LET formatErrors(formatResult) ==
            IF ~formatResult.success
            THEN IF formatResult.error = "DEVICE_BUSY"
                 THEN <<"Cannot change video format: camera is in use by another application">>
                 ELSE <<"Failed to set video format">>
            ELSE <<>>
        frameRateErrors(errors, frameRateResult) ==
            IF ~frameRateResult.success
            THEN IF frameRateResult.error = "DEVICE_BUSY"
                 THEN Append(errors, "Cannot change frame rate: camera is in use by another application")
                 ELSE Append(errors, "Failed to set frame rate")
            ELSE errors
        result(formatResult, frameRateResult, errors, scalars) ==
            [dev |-> scalars.dev,
             success |-> Len(errors) = 0,
             errors |-> errors,
             trace |-> <<Call("setVideoFormat", <<1920, 1080, "MJPG">>,
                              [success |-> formatResult.success, error |-> formatResult.error]),
                         Call("setFrameRate", <<30>>,
                              [success |-> frameRateResult.success,
                               error |-> frameRateResult.error])>>
                       \o scalars.trace]
        afterFrameRate(formatResult, frameRateResult) ==
            result(formatResult, frameRateResult,
                   frameRateErrors(formatErrors(formatResult), frameRateResult),
                   RunSetters(frameRateResult.dev,
                              IF formatResult.success THEN OptimalControls ELSE <<>>,
                              failed))
        afterFormat(formatResult) ==
            afterFrameRate(formatResult, setFrameRate(formatResult.dev, 30, fpsOutcome))
    IN  afterFormat(setVideoFormat(d, 1920, 1080, "MJPG", fmtOutcome))

\* WebcamController.applyOptimalSettings.  No call inside the try block can
\* throw (every callee catches), so the catch branch is never taken.
webcam_applyOptimalSettings(d, fmtOutcome, fpsOutcome, failed) ==
    LET formatErrors(formatResult) ==
            IF ~formatResult.success
            THEN IF formatResult.error = "DEVICE_BUSY"
                 THEN <<"Cannot change video format: camera is in use by another application">>
                 ELSE <<"Failed to set video format">>
            ELSE <<>>
        frameRateErrors(errors, frameRateResult) ==
            IF ~frameRateResult.success
            THEN IF frameRateResult.error = "DEVICE_BUSY"
                 THEN Append(errors, "Cannot change frame rate: camera is in use by another application")
                 ELSE Append(errors, "Failed to set frame rate")
            ELSE errors
        result(formatResult, frameRateResult, errors, scalars) ==
            [dev |-> scalars.dev,
             success |-> Len(errors) = 0,
             errors |-> errors,
             trace |-> <<Call("setVideoFormat", <<1920, 1080, "MJPG">>,
                              [success |-> formatResult.success, error |-> formatResult.error]),
                         Call("setFrameRate", <<30>>,
                              [success |-> frameRateResult.success,
                               error |-> frameRateResult.error])>>
                       \o scalars.trace]
        afterFrameRate(formatResult, frameRateResult) ==
            result(formatResult, frameRateResult,
                   frameRateErrors(formatErrors(formatResult), frameRateResult),
                   RunSetters(frameRateResult.dev, OptimalControls, failed))
        afterFormat(formatResult) ==
            afterFrameRate(formatResult, setFrameRate(formatResult.dev, 30, fpsOutcome))
    IN  afterFormat(setVideoFormat(d, 1920, 1080, "MJPG", fmtOutcome))

\* WebcamController.resetToDefaults
webcam_resetToDefaults(d, fmtOutcome, fpsOutcome, failed) ==
    LET formatErrors(formatResult) ==
            IF ~formatResult.success
            THEN IF formatResult.error = "DEVICE_BUSY"
                 THEN <<"Cannot reset video format: camera is in use by another application">>
                 ELSE <<"Failed to reset video format">>
            ELSE <<>>
        frameRateErrors(errors, frameRateResult) ==
            IF ~frameRateResult.success
            THEN IF frameRateResult.error = "DEVICE_BUSY"
                 THEN Append(errors, "Cannot reset frame rate: camera is in use by another application")
                 ELSE Append(errors, "Failed to reset frame rate")
            ELSE errors
        result(formatResult, frameRateResult, errors, scalars) ==
            [dev |-> scalars.dev,
             success |-> Len(errors) = 0,
             errors |-> errors,
             trace |-> <<Call("setVideoFormat", <<640, 480, "YUYV">>,
                              [success |-> formatResult.success, error |-> formatResult.error]),
                         Call("setFrameRate", <<30>>,
                              [success |-> frameRateResult.success,
                               error |-> frameRateResult.error])>>
                       \o scalars.trace]
        afterFrameRate(formatResult, frameRateResult) ==
            result(formatResult, frameRateResult,
                   frameRateErrors(formatErrors(formatResult), frameRateResult),
                   RunSetters(frameRateResult.dev, DefaultControls, failed))
        afterFormat(formatResult) ==
            afterFrameRate(formatResult, setFrameRate(formatResult.dev, 30, fpsOutcome))
    IN  afterFormat(setVideoFormat(d, 640, 480, "YUYV", fmtOutcome))

-----------------------------------------------------------------------------
(* The settings catalog and the display conversions: src/src/ui.tsx *)

\* the strings `${width}x${height}` the model meets, with their parts
ResolutionStrings ==
    {<<"640x480", 640, 480>>, <<"800x600", 800, 600>>, <<"1024x576", 1024, 576>>,
     <<"1280x720", 1280, 720>>, <<"1920x1080", 1920, 1080>>, <<"320x240", 320, 240>>}

\* the strings `${frameRate}fps` the model meets, with their number
FpsStrings ==
    {<<"5fps", 5>>, <<"10fps", 10>>, <<"15fps", 15>>, <<"20fps", 20>>,
     <<"24fps", 24>>, <<"30fps", 30>>, <<"60fps", 60>>}

\* `${currentFormat.width}x${currentFormat.height}`
ResolutionDisplay(width, height) ==
    (CHOOSE t \in ResolutionStrings : t[2] = width /\ t[3] = height)[1]

\* value.split('x').map(Number)
SplitResolution(str) ==
    LET parts(t) == <<t[2], t[3]>>
    IN  parts(CHOOSE u \in ResolutionStrings : u[1] = str)

\* `${currentFormat.frameRate}fps`
FrameRateDisplay(frameRate) ==
    (CHOOSE t \in FpsStrings : t[2] = frameRate)[1]

\* parseInt(value.replace('fps', ''))
ParseFrameRate(str) ==
    (CHOOSE t \in FpsStrings : t[1] = str)[2]

getPowerLineDisplay(frequency) ==
    CASE frequency = 0 -> "Disabled"
      [] frequency = 1 -> "50Hz"
      [] frequency = 2 -> "60Hz"
      [] OTHER -> "Unknown"

getAutoSettingName(manualKey) ==
    CASE manualKey = "exposureValue" -> "Auto Exposure"
      [] manualKey = "focusValue" -> "Auto Focus"
      [] manualKey = "whiteBalanceValue" -> "Auto White Balance"
      [] OTHER -> "Auto setting"

RangeItem(key, value, min, max, step) ==
    [key |-> key, type |-> "range", value |-> value,
     min |-> min, max |-> max, step |-> step]

SelectItem(key, value, options) ==
    [key |-> key, type |-> "select", value |-> value, options |-> options]

ToggleItem(key, value) ==
    [key |-> key, type |-> "toggle", value |-> value]

\* the catalog, in navigation order, carrying the live values
settings(cs, cf) ==
    <<SelectItem("resolution", ResolutionDisplay(cf.width, cf.height),
                 <<"640x480", "800x600", "1024x576", "1280x720", "1920x1080">>),
      SelectItem("format", cf.pixelFormat, <<"YUYV", "MJPG">>),
      SelectItem("framerate", FrameRateDisplay(cf.frameRate),
                 <<"5fps", "10fps", "15fps", "20fps", "24fps", "30fps">>),
      RangeItem("brightness", cs.brightness, 0, 255, 1),
      RangeItem("contrast", cs.contrast, 0, 255, 1),
      RangeItem("saturation", cs.saturation, 0, 255, 1),
      RangeItem("sharpness", cs.sharpness, 0, 255, 1),
      RangeItem("gain", cs.gain, 0, 255, 1),
      ToggleItem("autoExposure", cs.autoExposure),
      RangeItem("exposureValue", cs.exposureValue, 3, 2047, 1),
      ToggleItem("autoFocus", cs.autoFocus),
      RangeItem("focusValue", cs.focusValue, 0, 250, 5),
      ToggleItem("autoWhiteBalance", cs.autoWhiteBalance),
      RangeItem("whiteBalanceValue", cs.whiteBalanceValue, 2000, 6500, 10),
      SelectItem("powerLineFrequency", getPowerLineDisplay(cs.powerLineFrequency),
                 <<"Disabled", "50Hz", "60Hz">>)>>

\* variant: no row is ever hidden
shouldShowSetting_showAll(cs, key) == TRUE

shouldShowSetting(cs, key) ==
    CASE key = "exposureValue" -> ~cs.autoExposure
      [] key = "focusValue" -> ~cs.autoFocus
      [] key = "whiteBalanceValue" -> ~cs.autoWhiteBalance
      [] OTHER -> TRUE

isManualControlDisabled(cs, key) ==
    CASE key = "exposureValue" -> cs.autoExposure
      [] key = "focusValue" -> cs.autoFocus
      [] key = "whiteBalanceValue" -> cs.autoWhiteBalance
      [] OTHER -> FALSE

\* settings.filter(s => shouldShowSetting(s.key))
visibleSettings(cs, cf) ==
    LET Shown(item) == shouldShowSetting(cs, item.key)
    IN  SelectSeq(settings(cs, cf), Shown)

\* settings.find(s => s.key === key)
FindSetting(cs, cf, key) ==
    LET find(all) == all[CHOOSE i \in 1..Len(all) : all[i].key = key]
    IN  find(settings(cs, cf))

-----------------------------------------------------------------------------
(* The App component: src/src/ui.tsx.  A handler is a function from the     *)
(* state it runs in (s) and the outcomes of the v4l2-ctl executions it      *)
(* makes to the state it leaves.                                            *)

\* delay of the setTimeout of showNotification, in ms
NotifyMs == 2000

Dialog(type, title, message) ==
    [type |-> type, title |-> title, message |-> message]

NoDialog == Dialog("none", "", "")

\* variant: the device status is read but deviceBusy is not updated
refreshSettings_keepBusy(s, rs) ==
    LET update(newSettings, newFormat, status) ==
            [s EXCEPT !.currentSettings = newSettings,
                      !.currentFormat = newFormat,
                      !.calls = @ \o <<Call("getCurrentSettings", <<>>, newSettings),
                                       Call("getCurrentVideoFormat", <<>>, newFormat),
                                       Call("getDeviceStatus", <<>>, status)>>]
    IN  update(getCurrentSettings(s.dev, rs.readable),
               getCurrentVideoFormat(s.dev, rs.format),
               getDeviceStatus(rs.status))

refreshSettings(s, rs) ==
    LET update(newSettings, newFormat, status) ==
            [s EXCEPT !.currentSettings = newSettings,
                      !.currentFormat = newFormat,
                      !.deviceBusy = status.inUse,
                      !.calls = @ \o <<Call("getCurrentSettings", <<>>, newSettings),
                                       Call("getCurrentVideoFormat", <<>>, newFormat),
                                       Call("getDeviceStatus", <<>>, status)>>]
    IN  update(getCurrentSettings(s.dev, rs.readable),
               getCurrentVideoFormat(s.dev, rs.format),
               getDeviceStatus(rs.status))

\* variant: the notification is stored but not made visible
showNotification_hidden(s, message, type) ==
    [s EXCEPT !.notification = [message |-> message, type |-> type, visible |-> FALSE],
              !.timers = Append(@, NotifyMs)]

\* the timer started here is never cleared by anyone
showNotification(s, message, type) ==
    [s EXCEPT !.notification = [message |-> message, type |-> type, visible |-> TRUE],
              !.timers = Append(@, NotifyMs)]

\* the setter each case of applySetting calls
SettingSetter(key) ==
    CASE key = "brightness" -> "setBrightness"
      [] key = "contrast" -> "setContrast"
      [] key = "saturation" -> "setSaturation"
      [] key = "sharpness" -> "setSharpness"
      [] key = "gain" -> "setGain"
      [] key = "autoExposure" -> "setAutoExposure"
      [] key = "exposureValue" -> "setExposureValue"
      [] key = "autoFocus" -> "setAutoFocus"
      [] key = "focusValue" -> "setFocusValue"
      [] key = "autoWhiteBalance" -> "setAutoWhiteBalance"
      [] key = "whiteBalanceValue" -> "setWhiteBalanceValue"
      [] OTHER -> "none"

\* variant: a setter that returns false is reported to the user
applySetting_notifyOnFailure(s, key, value, out, rs) ==
    LET set(fn) ==
            LET log(r) ==
                    LET s2 == [s EXCEPT !.dev = r.dev,
                                        !.calls = Append(@, Call(fn, <<value>>, r.ret))]
                    IN  IF r.ret THEN s2
                        ELSE showNotification(s2, "Failed to apply setting", "error")
            IN  IF fn = "none" THEN s ELSE log(Setter(s.dev, fn, value, out = "OK"))
    IN  refreshSettings(set(SettingSetter(key)), rs)

applySetting(s, key, value, out, rs) ==
    LET set(fn) ==
            LET log(r) == [s EXCEPT !.dev = r.dev,
                                    !.calls = Append(@, Call(fn, <<value>>, r.ret))]
            IN  IF fn = "none" THEN s ELSE log(Setter(s.dev, fn, value, out = "OK"))
    IN  refreshSettings(set(SettingSetter(key)), rs)

\* variant: the other component of the format is not found among the
\* settings, and the fallback value is passed
applySelectSetting_fallbacks(s, key, value, out, rs) ==
    LET \* the setVideoFormat call of the resolution and format cases
        changeFormat(wh, pixelFormat, what) ==
            LET report(formatResult) ==
                    LET log(s2) ==
                            IF ~formatResult.success /\ formatResult.error = "DEVICE_BUSY"
                            THEN showNotification(s2,
                                     "Cannot change " \o what \o ": camera is in use", "error")
                            ELSE s2
                    IN  log([s EXCEPT !.dev = formatResult.dev,
                                      !.calls = Append(@, Call("setVideoFormat",
                                                    <<wh[1], wh[2], pixelFormat>>,
                                                    [success |-> formatResult.success,
                                                     error |-> formatResult.error]))])
            IN  report(setVideoFormat(s.dev, wh[1], wh[2], pixelFormat, out))
        changeFrameRate(fps) ==
            LET report(frameRateResult) ==
                    LET log(s2) ==
                            IF ~frameRateResult.success /\ frameRateResult.error = "DEVICE_BUSY"
                            THEN showNotification(s2,
                                     "Cannot change frame rate: camera is in use", "error")
                            ELSE s2
                    IN  log([s EXCEPT !.dev = frameRateResult.dev,
                                      !.calls = Append(@, Call("setFrameRate", <<fps>>,
                                                    [success |-> frameRateResult.success,
                                                     error |-> frameRateResult.error]))])
            IN  report(setFrameRate(s.dev, fps, out))
        changePowerLine(freq) ==
            LET log(r) == [s EXCEPT !.dev = r.dev,
                                    !.calls = Append(@, Call("setPowerLineFrequency",
                                                             <<freq>>, r.ret))]
            IN  log(setPowerLineFrequency(s.dev, freq, out = "OK"))
        \* x || d for a string x: the empty string is falsy
        orElse(x, d) == IF x = "" THEN d ELSE x
        switch ==
            CASE key = "resolution" ->
                   changeFormat(SplitResolution(value), orElse("", "MJPG"), "resolution")
              [] key = "format" ->
                   changeFormat(SplitResolution(orElse("", "1920x1080")),
                                value, "pixel format")
              [] key = "framerate" -> changeFrameRate(ParseFrameRate(value))
              [] key = "powerLineFrequency" ->
                   changePowerLine(CASE value = "50Hz" -> 1
                                     [] value = "60Hz" -> 2
                                     [] OTHER -> 0)
              [] OTHER -> s
    IN  refreshSettings(switch, rs)

applySelectSetting(s, key, value, out, rs) ==
    LET \* the setVideoFormat call of the resolution and format cases
        changeFormat(wh, pixelFormat, what) ==
            LET report(formatResult) ==
                    LET log(s2) ==
                            IF ~formatResult.success /\ formatResult.error = "DEVICE_BUSY"
                            THEN showNotification(s2,
                                     "Cannot change " \o what \o ": camera is in use", "error")
                            ELSE s2
                    IN  log([s EXCEPT !.dev = formatResult.dev,
                                      !.calls = Append(@, Call("setVideoFormat",
                                                    <<wh[1], wh[2], pixelFormat>>,
                                                    [success |-> formatResult.success,
                                                     error |-> formatResult.error]))])
            IN  report(setVideoFormat(s.dev, wh[1], wh[2], pixelFormat, out))
        changeFrameRate(fps) ==
            LET report(frameRateResult) ==
                    LET log(s2) ==
                            IF ~frameRateResult.success /\ frameRateResult.error = "DEVICE_BUSY"
                            THEN showNotification(s2,
                                     "Cannot change frame rate: camera is in use", "error")
                            ELSE s2
                    IN  log([s EXCEPT !.dev = frameRateResult.dev,
                                      !.calls = Append(@, Call("setFrameRate", <<fps>>,
                                                    [success |-> frameRateResult.success,
                                                     error |-> frameRateResult.error]))])
            IN  report(setFrameRate(s.dev, fps, out))
        changePowerLine(freq) ==
            LET log(r) == [s EXCEPT !.dev = r.dev,
                                    !.calls = Append(@, Call("setPowerLineFrequency",
                                                             <<freq>>, r.ret))]
            IN  log(setPowerLineFrequency(s.dev, freq, out = "OK"))
        \* x || d for a string x: the empty string is falsy
        orElse(x, d) == IF x = "" THEN d ELSE x
        switch ==
            CASE key = "resolution" ->
                   \* the local the source calls currentFormat, shadowing the state
                   changeFormat(SplitResolution(value),
                                orElse(FindSetting(s.currentSettings, s.currentFormat,
                                                   "format").value, "MJPG"),
                                "resolution")
              [] key = "format" ->
                   changeFormat(SplitResolution(
                                    orElse(FindSetting(s.currentSettings, s.currentFormat,
                                                       "resolution").value, "1920x1080")),
                                value, "pixel format")
              [] key = "framerate" -> changeFrameRate(ParseFrameRate(value))
              [] key = "powerLineFrequency" ->
                   changePowerLine(CASE value = "50Hz" -> 1
                                     [] value = "60Hz" -> 2
                                     [] OTHER -> 0)
              [] OTHER -> s
    IN  refreshSettings(switch, rs)

\* variant: the delta is added as it is, not multiplied by the step
RangeNewValue_noStep(setting, delta) ==
    LET min == OrElse(setting.min, 0)
        max == OrElse(setting.max, 255)
    IN  Max(min, Min(max, setting.value + delta))

\* the new value of a range setting
RangeNewValue(setting, delta) ==
    LET step == OrElse(setting.step, 1)
        min == OrElse(setting.min, 0)
        max == OrElse(setting.max, 255)
    IN  Max(min, Min(max, setting.value + (delta * step)))

\* variant: the index wraps around the options instead of clamping
SelectNewValue_wrap(setting, delta) ==
    LET currentIndex == IndexOf(setting.options, setting.value)
        newIndex == (currentIndex + delta) % Len(setting.options)
    IN  setting.options[newIndex + 1]

\* the option a select setting moves to
SelectNewValue(setting, delta) ==
    LET currentIndex == IndexOf(setting.options, setting.value)
        newIndex == Max(0, Min(Len(setting.options) - 1, currentIndex + delta))
    IN  setting.options[newIndex + 1]

\* variant: every setting needs exclusive access to the device
isFormatSetting_everyKey(key) == TRUE

isFormatSetting(key) == key \in {"resolution", "format", "framerate"}

\* variant: the row is taken from the whole catalog and the lock of the
\* manual controls is not consulted
adjustCurrentSetting_unlocked(s, delta, out, rs) ==
    LET adjust(setting) ==
            IF s.deviceBusy /\ isFormatSetting(setting.key)
            THEN showNotification(s, "Cannot change: camera is in use", "error")
            ELSE CASE setting.type = "range" ->
                        applySetting(s, setting.key, RangeNewValue(setting, delta), out, rs)
                   [] setting.type = "select" ->
                        applySelectSetting(s, setting.key, SelectNewValue(setting, delta), out, rs)
                   [] setting.type = "toggle" ->
                        applySetting(s, setting.key, ~setting.value, out, rs)
        pick(all) ==
            IF s.selectedIndex < 0 \/ s.selectedIndex >= Len(all) THEN s
            ELSE adjust(all[s.selectedIndex + 1])
    IN  pick(settings(s.currentSettings, s.currentFormat))

\* variant: the row is taken from the whole catalog, hidden rows included
adjustCurrentSetting_fromCatalog(s, delta, out, rs) ==
    LET adjust(setting) ==
            IF s.deviceBusy /\ isFormatSetting(setting.key)
            THEN showNotification(s, "Cannot change: camera is in use", "error")
            ELSE IF isManualControlDisabled(s.currentSettings, setting.key)
            THEN showNotification(s,
                     "Cannot adjust: " \o getAutoSettingName(setting.key) \o " is enabled",
                     "error")
            ELSE CASE setting.type = "range" ->
                        applySetting(s, setting.key, RangeNewValue(setting, delta), out, rs)
                   [] setting.type = "select" ->
                        applySelectSetting(s, setting.key, SelectNewValue(setting, delta), out, rs)
                   [] setting.type = "toggle" ->
                        applySetting(s, setting.key, ~setting.value, out, rs)
        pick(all) ==
            IF s.selectedIndex < 0 \/ s.selectedIndex >= Len(all) THEN s
            ELSE adjust(all[s.selectedIndex + 1])
    IN  pick(settings(s.currentSettings, s.currentFormat))

\* variant: a toggle is negated only by a non-zero delta
adjustCurrentSetting_toggleByDelta(s, delta, out, rs) ==
    LET adjust(setting) ==
            IF s.deviceBusy /\ isFormatSetting(setting.key)
            THEN showNotification(s, "Cannot change: camera is in use", "error")
            ELSE IF isManualControlDisabled(s.currentSettings, setting.key)
            THEN showNotification(s,
                     "Cannot adjust: " \o getAutoSettingName(setting.key) \o " is enabled",
                     "error")
            ELSE CASE setting.type = "range" ->
                        applySetting(s, setting.key, RangeNewValue(setting, delta), out, rs)
                   [] setting.type = "select" ->
                        applySelectSetting(s, setting.key, SelectNewValue(setting, delta), out, rs)
                   [] setting.type = "toggle" ->
                        applySetting(s, setting.key,
                                     IF delta = 0 THEN setting.value ELSE ~setting.value,
                                     out, rs)
        pick(visible) ==
            IF s.selectedIndex < 0 \/ s.selectedIndex >= Len(visible) THEN s
            ELSE adjust(visible[s.selectedIndex + 1])
    IN  pick(visibleSettings(s.currentSettings, s.currentFormat))

\* variant: the busy rejection resyncs before it returns
adjustCurrentSetting_resyncOnReject(s, delta, out, rs) ==
    LET adjust(setting) ==
            IF s.deviceBusy /\ isFormatSetting(setting.key)
            THEN refreshSettings(
                     showNotification(s, "Cannot change: camera is in use", "error"), rs)
            ELSE IF isManualControlDisabled(s.currentSettings, setting.key)
            THEN showNotification(s,
                     "Cannot adjust: " \o getAutoSettingName(setting.key) \o " is enabled",
                     "error")
            ELSE CASE setting.type = "range" ->
                        applySetting(s, setting.key, RangeNewValue(setting, delta), out, rs)
                   [] setting.type = "select" ->
                        applySelectSetting(s, setting.key, SelectNewValue(setting, delta), out, rs)
                   [] setting.type = "toggle" ->
                        applySetting(s, setting.key, ~setting.value, out, rs)
        pick(visible) ==
            IF s.selectedIndex < 0 \/ s.selectedIndex >= Len(visible) THEN s
            ELSE adjust(visible[s.selectedIndex + 1])
    IN  pick(visibleSettings(s.currentSettings, s.currentFormat))

adjustCurrentSetting(s, delta, out, rs) ==
    LET \* the body of the callback once `setting` is known to be defined
        adjust(setting) ==
            IF s.deviceBusy /\ isFormatSetting(setting.key)
            THEN showNotification(s, "Cannot change: camera is in use", "error")
            ELSE IF isManualControlDisabled(s.currentSettings, setting.key)
            THEN showNotification(s,
                     "Cannot adjust: " \o getAutoSettingName(setting.key) \o " is enabled",
                     "error")
            ELSE CASE setting.type = "range" ->
                        applySetting(s, setting.key, RangeNewValue(setting, delta), out, rs)
                   [] setting.type = "select" ->
                        applySelectSetting(s, setting.key, SelectNewValue(setting, delta), out, rs)
                   [] setting.type = "toggle" ->
                        applySetting(s, setting.key, ~setting.value, out, rs)
        pick(visible) ==
            IF s.selectedIndex < 0 \/ s.selectedIndex >= Len(visible) THEN s
            ELSE adjust(visible[s.selectedIndex + 1])
    IN  pick(visibleSettings(s.currentSettings, s.currentFormat))

\* the texts `Cannot adjust: ${autoSetting} is enabled` can take
LockMessages ==
    {"Cannot adjust: Auto Exposure is enabled",
     "Cannot adjust: Auto Focus is enabled",
     "Cannot adjust: Auto White Balance is enabled",
     "Cannot adjust: Auto setting is enabled"}

\* errors.join('. ') + '.'
ErrorMessage(errors) == Join(errors, ". ") \o "."

applyOptimalSettings(s, fmtOut, fpsOut, failed, rs) ==
    LET \* the statements after `const result = webcam.applyOptimalSettings()`
        report(s1, result) ==
            LET after(s3) ==
                    IF result.success
                    THEN showNotification(s3, "Optimal settings applied successfully!", "success")
                    ELSE IF Len(result.errors) > 0
                    THEN [s3 EXCEPT !.dialog =
                             Dialog("error", "Optimal Settings - Partial Success",
                                    ErrorMessage(result.errors))]
                    ELSE showNotification(s3, "Failed to apply optimal settings", "error")
            IN  after(refreshSettings(
                    [s1 EXCEPT !.dev = result.dev,
                               !.calls = (@ \o <<Call("applyOptimalSettings", <<>>,
                                                       [success |-> result.success,
                                                        errors |-> result.errors])>>)
                                         \o result.trace],
                    rs))
        run(s1) == report(s1, webcam_applyOptimalSettings(s1.dev, fmtOut, fpsOut, failed))
    IN  run(showNotification(s, "Applying optimal settings...", "info"))

\* variant: the state is not resynced after the backend call
resetToDefaults_noResync(s, fmtOut, fpsOut, failed, rs) ==
    LET report(s1, result) ==
            LET after(s3) ==
                    IF result.success
                    THEN showNotification(s3, "Factory defaults restored successfully!", "success")
                    ELSE IF Len(result.errors) > 0
                    THEN [s3 EXCEPT !.dialog =
                             Dialog("error", "Reset to Defaults - Partial Success",
                                    ErrorMessage(result.errors))]
                    ELSE showNotification(s3, "Failed to reset to defaults", "error")
                close(s4) == [s4 EXCEPT !.dialog = NoDialog]
            IN  close(after(
                    [s1 EXCEPT !.dev = result.dev,
                               !.calls = (@ \o <<Call("resetToDefaults", <<>>,
                                                       [success |-> result.success,
                                                        errors |-> result.errors])>>)
                                         \o result.trace]))
        run(s1) == report(s1, webcam_resetToDefaults(s1.dev, fmtOut, fpsOut, failed))
    IN  run(showNotification(s, "Resetting to factory defaults...", "info"))

\* the last statement closes whatever dialog the branches above opened
resetToDefaults(s, fmtOut, fpsOut, failed, rs) ==
    LET \* the statements after `const result = webcam.resetToDefaults()`
        report(s1, result) ==
            LET after(s3) ==
                    IF result.success
                    THEN showNotification(s3, "Factory defaults restored successfully!", "success")
                    ELSE IF Len(result.errors) > 0
                    THEN [s3 EXCEPT !.dialog =
                             Dialog("error", "Reset to Defaults - Partial Success",
                                    ErrorMessage(result.errors))]
                    ELSE showNotification(s3, "Failed to reset to defaults", "error")
                close(s4) == [s4 EXCEPT !.dialog = NoDialog]
            IN  close(after(refreshSettings(
                    [s1 EXCEPT !.dev = result.dev,
                               !.calls = (@ \o <<Call("resetToDefaults", <<>>,
                                                       [success |-> result.success,
                                                        errors |-> result.errors])>>)
                                         \o result.trace],
                    rs)))
        run(s1) == report(s1, webcam_resetToDefaults(s1.dev, fmtOut, fpsOut, failed))
    IN  run(showNotification(s, "Resetting to factory defaults...", "info"))

\* webcam.getDetailedInfo(): the text of v4l2-ctl, or the fixed text of the catch branch
getDetailedInfo(ok) ==
    IF ok THEN "Video Format / Frame Rate / All Controls"
    ELSE "Unable to retrieve detailed information"

\* the key events: the special keys of ink's `key`, the characters of
\* `input` the handler tests, Ctrl-C, and one character it does not test
Keys ==
    {"upArrow", "downArrow", "leftArrow", "rightArrow", "return", "pageUp", "pageDown",
     "escape", "o", "O", "r", "R", "i", "I", "h", "H", "?", "q", "Q",
     "y", "Y", "n", "N", "ctrl+c", "x"}

\* variant: Escape does not close the Confirm dialog
dialogInput_escapeIgnored(s, k, in) ==
    IF s.dialog.type = "reset"
    THEN IF k \in {"y", "Y"}
         THEN resetToDefaults([s EXCEPT !.dialog = NoDialog],
                              in.fmt, in.fps, in.failed, in.rs)
         ELSE IF k \in {"n", "N"}
         THEN [s EXCEPT !.dialog = NoDialog]
         ELSE s
    ELSE IF k \in {"return", "escape", "q"}
         THEN [s EXCEPT !.dialog = NoDialog]
         ELSE s

\* variant: Enter does not close the Help, Info and Error dialogs
dialogInput_enterIgnored(s, k, in) ==
    IF s.dialog.type = "reset"
    THEN IF k \in {"y", "Y"}
         THEN resetToDefaults([s EXCEPT !.dialog = NoDialog],
                              in.fmt, in.fps, in.failed, in.rs)
         ELSE IF k \in {"n", "N", "escape"}
         THEN [s EXCEPT !.dialog = NoDialog]
         ELSE s
    ELSE IF k \in {"escape", "q"}
         THEN [s EXCEPT !.dialog = NoDialog]
         ELSE s

\* the handler passed to useInput while a dialog is open (the gate of its
\* first lines, closed by `return`)
dialogInput(s, k, in) ==
    IF s.dialog.type = "reset"
    THEN IF k \in {"y", "Y"}
         THEN resetToDefaults([s EXCEPT !.dialog = NoDialog],
                              in.fmt, in.fps, in.failed, in.rs)
         ELSE IF k \in {"n", "N", "escape"}
         THEN [s EXCEPT !.dialog = NoDialog]
         ELSE s
    ELSE IF k \in {"return", "escape", "q"}
         THEN [s EXCEPT !.dialog = NoDialog]
         ELSE s

\* the delta each adjust key passes to adjustCurrentSetting
AdjustDelta ==
    [leftArrow |-> -1, rightArrow |-> 1, return |-> 0, pageUp |-> -10, pageDown |-> 10]

\* the handler passed to useInput while no dialog is open
mainInput(s, k, in) ==
    CASE k = "upArrow" -> [s EXCEPT !.selectedIndex = Max(0, s.selectedIndex - 1)]
      [] k = "downArrow" ->
           [s EXCEPT !.selectedIndex =
                Min(Len(visibleSettings(s.currentSettings, s.currentFormat)) - 1,
                    s.selectedIndex + 1)]
      [] k \in DOMAIN AdjustDelta -> adjustCurrentSetting(s, AdjustDelta[k], in.out, in.rs)
      [] k \in {"o", "O"} -> applyOptimalSettings(s, in.fmt, in.fps, in.failed, in.rs)
      [] k \in {"r", "R"} ->
           [s EXCEPT !.dialog = Dialog("reset", "Reset to Factory Defaults",
                "This will reset all settings to factory defaults.\nAre you sure you want to continue?")]
      [] k \in {"i", "I"} ->
           LET show(info) ==
                   [s EXCEPT !.dialog = Dialog("info", "Detailed Camera Information", info),
                             !.calls = Append(@, Call("getDetailedInfo", <<>>, info))]
           IN  show(getDetailedInfo(in.info))
      [] k \in {"h", "H", "?"} -> [s EXCEPT !.dialog = Dialog("help", "", "")]
      [] k \in {"q", "Q", "ctrl+c"} -> [s EXCEPT !.exited = TRUE]
      [] OTHER -> s

\* variant: the dialog gate does not return, and the key goes on to the
\* handlers of the main screen
useInput_noReturn(s0, k, in) ==
    LET handler(s) ==
            IF s.dialog.type # "none"
            THEN mainInput(dialogInput(s, k, in), k, in)
            ELSE mainInput(s, k, in)
    IN  handler([s0 EXCEPT !.calls = <<>>])

\* the handler passed to useInput; `in` holds the outcomes of the v4l2-ctl
\* executions the handler may make.  The call log starts empty.
useInput(s0, k, in) ==
    LET handler(s) ==
            IF s.dialog.type # "none" THEN dialogInput(s, k, in) ELSE mainInput(s, k, in)
    IN  handler([s0 EXCEPT !.calls = <<>>])

-----------------------------------------------------------------------------
(* The devices and the v4l2-ctl outcomes explored *)

\* values of the range controls: at the lower end of the catalog range, one
\* step above it, in the middle, one step below the upper end, at the upper end
RangeValues(level) ==
    CASE level = "min" -> [basic |-> 0, gain |-> 0, exposure |-> 3, focus |-> 0, wb |-> 2000]
      [] level = "low" -> [basic |-> 1, gain |-> 1, exposure |-> 4, focus |-> 5, wb |-> 2010]
      [] level = "mid" -> [basic |-> 128, gain |-> 100, exposure |-> 250, focus |-> 125, wb |-> 4000]
      [] level = "high" -> [basic |-> 254, gain |-> 254, exposure |-> 2046, focus |-> 245, wb |-> 6490]
      [] level = "max" -> [basic |-> 255, gain |-> 255, exposure |-> 2047, focus |-> 250, wb |-> 6500]

\* values behind the select settings: the first option, a middle one, the
\* last one, and a value no option list holds
SelectValues(pos) ==
    CASE pos = "first" -> [w |-> 640, h |-> 480, pf |-> "YUYV", fps |-> 5, pl |-> 0]
      [] pos = "middle" -> [w |-> 1280, h |-> 720, pf |-> "MJPG", fps |-> 15, pl |-> 1]
      [] pos = "last" -> [w |-> 1920, h |-> 1080, pf |-> "MJPG", fps |-> 30, pl |-> 2]
      [] pos = "absent" -> [w |-> 320, h |-> 240, pf |-> "H264", fps |-> 60, pl |-> 3]

Device(level, pos, auto) ==
    LET r == RangeValues(level)
        v == SelectValues(pos)
    IN  [ctl |-> [c \in Controls |->
                    CASE c \in {"brightness", "contrast", "saturation", "sharpness"} -> r.basic
                      [] c = "gain" -> r.gain
                      [] c = "auto_exposure" -> IF auto THEN 3 ELSE 1
                      [] c = "focus_automatic_continuous" -> IF auto THEN 1 ELSE 0
                      [] c = "white_balance_automatic" -> IF auto THEN 1 ELSE 0
                      [] c = "power_line_frequency" -> v.pl
                      [] c = "exposure_time_absolute" -> r.exposure
                      [] c = "focus_absolute" -> r.focus
                      [] c = "white_balance_temperature" -> r.wb
                      [] OTHER -> 0],
         fmt |-> [width |-> v.w, height |-> v.h, pixelFormat |-> v.pf, frameRate |-> v.fps]]

InitDevices ==
    {Device("min", "first", FALSE), Device("low", "middle", FALSE),
     Device("mid", "absent", FALSE), Device("high", "last", FALSE),
     Device("max", "last", TRUE), Device("mid", "middle", TRUE)}

\* outcomes of the three reads of one refreshSettings
ResyncOutcomes ==
    {[readable |-> Controls, format |-> "OK", status |-> "OK"],
     [readable |-> Controls, format |-> "OK", status |-> "DEVICE_BUSY"],
     [readable |-> Controls, format |-> "DEVICE_BUSY", status |-> "DEVICE_BUSY"],
     [readable |-> {}, format |-> "UNKNOWN", status |-> "UNKNOWN"]}

AllReadsOk == [readable |-> Controls, format |-> "OK", status |-> "OK"]

\* the inputs of a handler that makes no v4l2-ctl execution
NoInputs ==
    [out |-> "OK", fmt |-> "OK", fps |-> "OK", failed |-> {}, rs |-> AllReadsOk, info |-> TRUE]

AdjustInputs ==
    {[NoInputs EXCEPT !.out = o, !.rs = r] : o \in ExecOutcomes, r \in ResyncOutcomes}

SetterNames(steps) == {steps[i].fn : i \in 1..Len(steps)}

FailedSets(steps) ==
    {f \in SUBSET SetterNames(steps) : Cardinality(f) <= MaxScalarFailures}

CompositeInputs(steps) ==
    {[NoInputs EXCEPT !.fmt = a, !.fps = b, !.failed = f, !.rs = r] :
        a \in ExecOutcomes, b \in ExecOutcomes, f \in FailedSets(steps), r \in ResyncOutcomes}

InfoInputs == {[NoInputs EXCEPT !.info = b] : b \in BOOLEAN}

ReadOnlyCalls ==
    {"getCurrentSettings", "getCurrentVideoFormat", "getDeviceStatus", "getDetailedInfo"}

HasCall(log, fn) == \E i \in 1..Len(log) : log[i].fn = fn

\* the handler called a backend method that writes to the device
Wrote(log) == \E i \in 1..Len(log) : log[i].fn \notin ReadOnlyCalls

-----------------------------------------------------------------------------
(* The state machine *)

Cur ==
    [dev |-> dev, currentSettings |-> currentSettings, currentFormat |-> currentFormat,
     selectedIndex |-> selectedIndex, deviceBusy |-> deviceBusy, dialog |-> dialog,
     notification |-> notification, timers |-> timers, exited |-> exited, calls |-> calls]

Init ==
    /\ dev \in InitDevices
    /\ currentSettings = getCurrentSettings(dev, Controls)
    /\ currentFormat = getCurrentVideoFormat(dev, "OK")
    /\ selectedIndex = 0
    /\ deviceBusy = FALSE
    /\ dialog = NoDialog
    /\ notification = [message |-> "", type |-> "info", visible |-> FALSE]
    /\ timers = <<>>
    /\ exited = FALSE
    /\ calls = <<>>
    /\ caller = "none"
    /\ opsDone = 0

\* the outcomes to explore for a handler that makes the calls of `log`
InputsFor(log) ==
    IF HasCall(log, "applyOptimalSettings") THEN CompositeInputs(OptimalControls)
    ELSE IF HasCall(log, "resetToDefaults") THEN CompositeInputs(DefaultControls)
    ELSE IF HasCall(log, "getDetailedInfo") THEN InfoInputs
    ELSE IF log # <<>> THEN AdjustInputs
    ELSE {NoInputs}

\* the row under the cursor: visibleSettings[selectedIndex], undefined when
\* the index is outside the visible settings
HasCurrentSetting ==
    selectedIndex >= 0 /\ selectedIndex < Len(visibleSettings(currentSettings, currentFormat))

currentSetting == visibleSettings(currentSettings, currentFormat)[selectedIndex + 1]

\* the handler of key k leaves state t
Becomes(t, k) ==
    /\ Len(t.timers) <= MaxTimers
    /\ opsDone' = opsDone + (IF Wrote(t.calls) THEN 1 ELSE 0)
    /\ dev' = t.dev
    /\ currentSettings' = t.currentSettings
    /\ currentFormat' = t.currentFormat
    /\ selectedIndex' = t.selectedIndex
    /\ deviceBusy' = t.deviceBusy
    /\ dialog' = t.dialog
    /\ notification' = t.notification
    /\ timers' = t.timers
    /\ exited' = t.exited
    /\ calls' = t.calls
    /\ caller' = IF t.calls = <<>> THEN "none" ELSE k

\* the states the handler of key k can leave: one per way its v4l2-ctl
\* executions can end.  Which backend methods a handler calls does not depend
\* on how the calls end, so the calls of the run in which every execution
\* succeeds tell which outcomes there are.
Outcomes(k) ==
    LET from(probe) ==
            IF probe.calls = <<>> THEN {probe}
            ELSE {useInput(Cur, k, in) : in \in InputsFor(probe.calls)}
    IN  from(useInput(Cur, k, NoInputs))

\* one key event delivered to the handler
Handle(k) ==
    /\ ~exited
    /\ Wrote(useInput(Cur, k, NoInputs).calls) => opsDone < MaxOps
    /\ \E t \in Outcomes(k) : Becomes(t, k)

NavKeys == {"upArrow", "downArrow"}
AdjustKeys == {"leftArrow", "rightArrow", "return", "pageUp", "pageDown"}
CompositeKeys == {"o", "O", "r", "R", "y", "Y", "n", "N", "escape"}

\* the keys that open the Confirm dialog, and those that answer it
ResetKeys == {"r", "R"}
ConfirmKeys == {"y", "Y"}
DeclineKeys == {"n", "N", "escape"}
\* the keys that close the Help, Info and Error dialogs
CloseKeys == {"return", "escape", "q"}

\* a key event of a user who presses the keys of mainKeys while no dialog
\* is open and those of dialogKeys while one is
KeyEvent(mainKeys, dialogKeys) ==
    \E k \in (IF dialog.type = "none" THEN mainKeys ELSE dialogKeys) : Handle(k)

\* the clock advances while no pending timer is due
Tick ==
    /\ Len(timers) > 0
    /\ \A i \in 1..Len(timers) : timers[i] > 0
    /\ timers' = [i \in 1..Len(timers) |-> Max(0, timers[i] - TickMs)]
    /\ UNCHANGED <<dev, currentSettings, currentFormat, selectedIndex, deviceBusy,
                   dialog, notification, exited, calls, caller, opsDone>>

\* variant: an expiring timer leaves the notification as it is
TimerFire_noHide ==
    /\ Len(timers) > 0
    /\ timers[1] = 0
    /\ timers' = Tail(timers)
    /\ UNCHANGED <<dev, currentSettings, currentFormat, selectedIndex, deviceBusy,
                   dialog, notification, exited, calls, caller, opsDone>>

\* the callback of the oldest timer runs: setNotification(prev => ({...prev, visible: false})).
\* After exit() the component is unmounted and the state update has no effect.
TimerFire ==
    /\ Len(timers) > 0
    /\ timers[1] = 0
    /\ timers' = Tail(timers)
    /\ notification' = IF exited THEN notification
                       ELSE [notification EXCEPT !.visible = FALSE]
    /\ UNCHANGED <<dev, currentSettings, currentFormat, selectedIndex, deviceBusy,
                   dialog, exited, calls, caller, opsDone>>

Next == KeyEvent(Keys, Keys) \/ Tick \/ TimerFire

Spec == Init /\ [][Next]_vars

\* sessions of a user who only navigates and adjusts
AdjustSessionKeys == NavKeys \cup AdjustKeys

NextAdjust == KeyEvent(AdjustSessionKeys, {}) \/ Tick \/ TimerFire

SpecAdjust == Init /\ [][NextAdjust]_vars

\* sessions of a user who navigates, optimizes and resets
CompositeDevices == {Device("low", "middle", FALSE), Device("max", "last", TRUE)}

InitComposite == Init /\ dev \in CompositeDevices

CompositeSessionKeys == NavKeys \cup CompositeKeys

NextComposite == KeyEvent(CompositeSessionKeys, CompositeKeys) \/ Tick \/ TimerFire

SpecComposite == InitComposite /\ [][NextComposite]_vars

\* sessions of a user who presses every key but leaves the cursor on the first row
DialogSessionKeys == Keys \ NavKeys

NextDialog == KeyEvent(DialogSessionKeys, Keys) \/ Tick \/ TimerFire

SpecDialog == InitComposite /\ [][NextDialog]_vars

\* sessions of a user who adjusts twice: the resync of the first adjustment
\* may find the device in use, and the second is made in that state
BusySessionKeys == {"downArrow", "rightArrow", "return"}

BusyDevices == {Device("low", "middle", FALSE), Device("mid", "middle", TRUE)}

InitBusy == Init /\ dev \in BusyDevices

\* one key event of a session of at most `budget` handlers that write
HandleWithin(k, budget) ==
    /\ ~exited
    /\ Wrote(useInput(Cur, k, NoInputs).calls) => opsDone < budget
    /\ \E t \in Outcomes(k) : Becomes(t, k)

NextBusy ==
    \/ \E k \in BusySessionKeys : dialog.type = "none" /\ HandleWithin(k, MaxBusyOps)
    \/ Tick
    \/ TimerFire

SpecBusy == InitBusy /\ [][NextBusy]_vars

-----------------------------------------------------------------------------
(* Properties.  A step "of key k" is a step that satisfies Handle(k); a     *)
(* step in which a handler wrote to the device is one that raises opsDone,  *)
(* and caller' is then the key of that handler.                             *)

\* C1: in every reachable state with no dialog active the selection index
\* lies within the visible settings, 0 <= selectedIndex <= visibleCount - 1,
\* also right after Optimize, Reset or a toggle has shrunk the visible set.
C1_SelectionInRange ==
    dialog.type = "none" =>
        /\ 0 <= selectedIndex
        /\ selectedIndex <= Len(visibleSettings(currentSettings, currentFormat)) - 1

\* C2: while deviceBusy is true and no dialog is active, an adjust key pressed
\* on resolution, format or framerate makes no backend call, leaves
\* currentSettings, currentFormat and deviceBusy (and the device) unchanged
\* and shows the error notification "Cannot change: camera is in use".
C2_BusyRejection ==
    (/\ dialog.type = "none"
     /\ ~exited
     /\ deviceBusy
     /\ HasCurrentSetting
     /\ currentSetting.key \in {"resolution", "format", "framerate"})
    => \A k \in AdjustKeys : \A t \in Outcomes(k) :
          /\ t.calls = <<>>
          /\ t.dev = dev
          /\ t.currentSettings = currentSettings
          /\ t.currentFormat = currentFormat
          /\ t.deviceBusy = deviceBusy
          /\ t.notification = [message |-> "Cannot change: camera is in use",
                               type |-> "error", visible |-> TRUE]

\* C2 witness: a busy device, a format row under the cursor, and the
\* rejection just shown without any backend call
C2_Rejected ==
    /\ dialog.type = "none"
    /\ deviceBusy
    /\ HasCurrentSetting
    /\ currentSetting.key = "framerate"
    /\ calls = <<>>
    /\ notification = [message |-> "Cannot change: camera is in use",
                       type |-> "error", visible |-> TRUE]

\* C3: after Optimize (o/O) or Reset (y/Y in the Confirm dialog) has returned
\* a non-empty error list, the dialog is the Error dialog and its message is
\* the collected messages joined by ". " (with or without a closing period).
C3_ErrorDialogAfterComposite ==
    \A i \in 1..Len(calls) :
        (/\ calls[i].fn \in {"applyOptimalSettings", "resetToDefaults"}
         /\ Len(calls[i].ret.errors) > 0)
        => /\ dialog.type = "error"
           /\ dialog.message \in {Join(calls[i].ret.errors, ". "),
                                  Join(calls[i].ret.errors, ". ") \o "."}

C5_TimerSuperseded ==
    /\ Len(timers) <= 1
    /\ (timers # <<>> /\ timers[Len(timers)] > 0 /\ ~exited) => notification.visible

\* C5: the state the claim excludes: the latest notification is hidden while
\* its own timer still has time left
C5_HiddenEarly ==
    timers # <<>> /\ timers[Len(timers)] > 0 /\ ~exited /\ ~notification.visible

\* C6: from the main screen r/R opens the Confirm dialog without a backend
\* call and without touching anything else; n, N or Escape then closes it,
\* again without a backend call, so that currentSettings, currentFormat,
\* deviceBusy, selectedIndex and notification are as before r was pressed.
C6_ConfirmThenCancel ==
    /\ (dialog.type = "none" /\ ~exited)
       => \A k \in ResetKeys : \A t \in Outcomes(k) :
             /\ t.dialog.type = "reset"
             /\ [t EXCEPT !.dialog = dialog] = [Cur EXCEPT !.calls = <<>>]
    /\ (dialog.type = "reset" /\ ~exited)
       => \A k \in DeclineKeys : \A t \in Outcomes(k) :
             /\ t.dialog.type = "none"
             /\ [t EXCEPT !.dialog = dialog] = [Cur EXCEPT !.calls = <<>>]

\* C6 witness: the Confirm dialog is open and nothing has been sent to the device
C6_ConfirmOpen ==
    dialog.type = "reset" /\ calls = <<>> /\ opsDone = 0 /\ ~exited

\* C7: y or Y in the Confirm dialog calls the backend resetToDefaults exactly
\* once and then reads settings, format and device status; no step of any
\* other key, and no step from any other dialog state, calls it.
C7_ResetOnlyOnConfirm ==
    [][/\ (dialog.type = "reset" /\ ~exited)
          => \A k \in ConfirmKeys :
                HasCall(useInput(Cur, k, NoInputs).calls, "resetToDefaults")
       /\ (opsDone' # opsDone /\ HasCall(calls', "resetToDefaults"))
          => /\ dialog.type = "reset"
             /\ caller' \in {"y", "Y"}
             /\ Cardinality({i \in 1..Len(calls') : calls'[i].fn = "resetToDefaults"}) = 1
             /\ calls'[1].fn = "resetToDefaults"
             /\ LET n == Len(calls') IN
                /\ calls'[n - 2].fn = "getCurrentSettings"
                /\ calls'[n - 1].fn = "getCurrentVideoFormat"
                /\ calls'[n].fn = "getDeviceStatus"
                /\ currentSettings' = calls'[n - 2].ret
                /\ currentFormat' = calls'[n - 1].ret
                /\ deviceBusy' = calls'[n].ret.inUse
                /\ \A i \in 1..(n - 3) : calls'[i].fn \notin ReadOnlyCalls]_vars

\* C7 witness: the handler of Y has just reset the device
C7_ResetDone ==
    caller = "Y" /\ HasCall(calls, "resetToDefaults") /\ dialog.type = "none"

C9_IdempotentAtBound ==
    [][(/\ opsDone' # opsDone
        /\ dialog.type = "none"
        /\ HasCurrentSetting
        /\ currentSetting.type = "range"
        /\ caller' \in {"leftArrow", "rightArrow", "pageUp", "pageDown"}
        /\ calls'[1].ret = TRUE
        /\ currentSettings' = getCurrentSettings(dev', Controls))
       => LET c == currentSetting
              bound == IF caller' \in {"leftArrow", "pageUp"} THEN c.min ELSE c.max
          IN  calls'[1].args = <<bound>> => currentSettings'[c.key] = bound]_vars

\* C10: PageUp and PageDown change the value of the selected Range setting by
\* exactly 10, less only when clamped at min or max, for every Range setting
\* (focusValue and whiteBalanceValue included).
C10_PageKeysChangeByTen ==
    [][(/\ opsDone' # opsDone
        /\ dialog.type = "none"
        /\ HasCurrentSetting
        /\ currentSetting.type = "range"
        /\ caller' \in {"pageUp", "pageDown"})
       => LET c == currentSetting
          IN  calls'[1].args[1] \in {Max(c.min, c.value - 10), Min(c.max, c.value + 10)}]_vars

\* C11: an adjust key (delta -10, -1, 0, +1, +10) on a Select row hands the
\* apply step a member of the row's options list: the backend call made is
\* the one of some option.  The index clamps: Left or PageUp on the first
\* option sends the first option, Right or PageDown on the last sends the last.
C11_SelectStaysInOptions ==
    [][(/\ opsDone' # opsDone
        /\ dialog.type = "none"
        /\ HasCurrentSetting
        /\ currentSetting.type = "select"
        /\ caller' \in AdjustKeys)
       => LET c == currentSetting
              n == Len(c.options)
              call == calls'[1]
              Sent(v) ==
                  CASE c.key = "resolution" ->
                         /\ call.fn = "setVideoFormat"
                         /\ <<call.args[1], call.args[2]>> = SplitResolution(v)
                    [] c.key = "format" ->
                         call.fn = "setVideoFormat" /\ call.args[3] = v
                    [] c.key = "framerate" ->
                         call.fn = "setFrameRate" /\ call.args = <<ParseFrameRate(v)>>
                    [] c.key = "powerLineFrequency" ->
                         /\ call.fn = "setPowerLineFrequency"
                         /\ call.args = <<CASE v = "Disabled" -> 0
                                            [] v = "50Hz" -> 1
                                            [] v = "60Hz" -> 2>>
          IN  /\ \E i \in 1..n : Sent(c.options[i])
              /\ (c.value = c.options[1] /\ AdjustDelta[caller'] < 0) => Sent(c.options[1])
              /\ (c.value = c.options[n] /\ AdjustDelta[caller'] > 0) => Sent(c.options[n])]_vars

\* C11 witness: Left on a frame rate shown as the first option, 5fps, has
\* sent 5 again
C11_LeftAtFirstOption ==
    /\ caller = "leftArrow"
    /\ calls # <<>>
    /\ calls[1].fn = "setFrameRate"
    /\ calls[1].args = <<5>>
    /\ calls[1].ret.success
    /\ dev = Device("min", "first", FALSE)

\* C12: whichever adjust key (delta -10, -1, 0, +1, +10) is pressed on a
\* Toggle row, and however the v4l2-ctl executions end, the handler calls the
\* row's setter with the negation of the current value.
C12_ToggleSendsNegation ==
    (/\ dialog.type = "none"
     /\ ~exited
     /\ HasCurrentSetting
     /\ currentSetting.type = "toggle")
    => LET negated(c) ==
               \A k \in AdjustKeys : \A t \in Outcomes(k) :
                  /\ t.calls # <<>>
                  /\ t.calls[1].fn = SettingSetter(c.key)
                  /\ t.calls[1].args = <<~c.value>>
       IN  negated(currentSetting)

\* C12 witness: Enter (delta 0) on autoFocus, shown off, has sent TRUE
C12_EnterTurnedAutoFocusOn ==
    /\ caller = "return"
    /\ calls # <<>>
    /\ calls[1].fn = "setAutoFocus"
    /\ calls[1].args = <<TRUE>>

\* C13: in every reachable state the visible settings hold no exposureValue
\* row while the local autoExposure is true, no focusValue row while autoFocus
\* is true and no whiteBalanceValue row while autoWhiteBalance is true; every
\* other key of the catalog is always among them.
C13_ManualRowsHiddenWhenAuto ==
    LET rows(list) == {list[i].key : i \in 1..Len(list)}
        hidden(visible, catalog) ==
            /\ currentSettings.autoExposure => "exposureValue" \notin visible
            /\ currentSettings.autoFocus => "focusValue" \notin visible
            /\ currentSettings.autoWhiteBalance => "whiteBalanceValue" \notin visible
            /\ \A key \in catalog \ {"exposureValue", "focusValue", "whiteBalanceValue"} :
                  key \in visible
    IN  hidden(rows(visibleSettings(currentSettings, currentFormat)),
               rows(settings(currentSettings, currentFormat)))

\* C13 witness: Enter on autoExposure has just turned it on while autoFocus
\* is off, so one manual row is hidden and another is shown
C13_AutoExposureTurnedOn ==
    /\ calls # <<>>
    /\ calls[1].fn = "setAutoExposure"
    /\ calls[1].args = <<TRUE>>
    /\ currentSettings.autoExposure
    /\ ~currentSettings.autoFocus

\* C14: however the format step and the frame-rate step end (success,
\* DEVICE_BUSY, UNKNOWN), applyOptimalSettings and resetToDefaults make their
\* whole sequence of calls in order: setVideoFormat, setFrameRate, then every
\* scalar setter of the operation.
C14_CompositeRunsWholeSequence ==
    LET follows(i, fns) ==
            /\ Len(calls) >= i + Len(fns)
            /\ \A j \in 1..Len(fns) : calls[i + j].fn = fns[j]
    IN  \A i \in 1..Len(calls) :
           /\ calls[i].fn = "applyOptimalSettings"
              => follows(i, <<"setVideoFormat", "setFrameRate", "setAutoExposure",
                              "setAutoFocus", "setAutoWhiteBalance", "setPowerLineFrequency",
                              "setSaturation", "setSharpness", "setBrightness",
                              "setContrast">>)
           /\ calls[i].fn = "resetToDefaults"
              => follows(i, <<"setVideoFormat", "setFrameRate", "setBrightness",
                              "setContrast", "setSaturation", "setSharpness", "setGain",
                              "setAutoExposure", "setAutoFocus", "setAutoWhiteBalance",
                              "setPowerLineFrequency",
                              "setControl:backlight_compensation">>)

\* C14 witness: Optimize whose format step ended DEVICE_BUSY and whose
\* frame-rate step ended UNKNOWN has gone on to its last setter
C14_OptimizeWentOnAfterFailures ==
    /\ Len(calls) >= 11
    /\ calls[1].fn = "applyOptimalSettings"
    /\ calls[2].ret.error = "DEVICE_BUSY"
    /\ calls[3].ret.error = "UNKNOWN"
    /\ calls[11].fn = "setContrast"
    /\ calls[11].ret = TRUE

\* C15: a composite operation (Optimize, Reset) reports success only if its
\* format change, its frame-rate change and every scalar setter of its
\* sequence succeeded, and its error list has one message per failed step.
C15_CompositeAggregatesFailures ==
    \A i \in 1..Len(calls) :
        calls[i].fn \in {"applyOptimalSettings", "resetToDefaults"}
        => LET failedSteps ==
                   {j \in (i + 1)..Len(calls) :
                       /\ calls[j].fn \notin ReadOnlyCalls
                       /\ IF calls[j].fn \in {"setVideoFormat", "setFrameRate"}
                          THEN ~calls[j].ret.success
                          ELSE ~calls[j].ret}
           IN  /\ calls[i].ret.success => failedSteps = {}
               /\ Len(calls[i].ret.errors) = Cardinality(failedSteps)

\* C16: when an adjust of resolution, format or framerate reaches the backend
\* and the call returns DEVICE_BUSY, the handler leaves a visible notification
\* of severity error that names the setting (resolution, pixel format, frame
\* rate), and the local state is resynced after the call.
C16_BusyResultNamesSetting ==
    [][(/\ opsDone' # opsDone
        /\ dialog.type = "none"
        /\ HasCurrentSetting
        /\ currentSetting.key \in {"resolution", "format", "framerate"}
        /\ caller' \in AdjustKeys
        /\ calls'[1].ret.error = "DEVICE_BUSY")
       => LET what == CASE currentSetting.key = "resolution" -> "resolution"
                        [] currentSetting.key = "format" -> "pixel format"
                        [] currentSetting.key = "framerate" -> "frame rate"
              n == Len(calls')
          IN  /\ notification' = [message |-> "Cannot change " \o what \o ": camera is in use",
                                  type |-> "error", visible |-> TRUE]
              /\ n = 4
              /\ calls'[2].fn = "getCurrentSettings"
              /\ calls'[3].fn = "getCurrentVideoFormat"
              /\ calls'[4].fn = "getDeviceStatus"
              /\ currentSettings' = calls'[2].ret
              /\ currentFormat' = calls'[3].ret
              /\ deviceBusy' = calls'[4].ret.inUse]_vars

\* C16 witness: Right on the format row was answered DEVICE_BUSY and the
\* notification names the pixel format
C16_PixelFormatBusy ==
    /\ caller = "rightArrow"
    /\ calls # <<>>
    /\ calls[1].fn = "setVideoFormat"
    /\ calls[1].ret.error = "DEVICE_BUSY"
    /\ selectedIndex = 1
    /\ notification.message = "Cannot change pixel format: camera is in use"

\* C17: the message and severity of the notification are those of the most
\* recent showNotification: only a step that starts a timer changes them, and
\* that step leaves the notification visible with the full delay ahead.  Once
\* the delay of the most recent showNotification has passed (no timer is
\* pending any more) the notification is not visible.
C17_LatestContentThenHidden ==
    /\ []((timers = <<>> /\ ~exited) => ~notification.visible)
    /\ [][/\ Len(timers') <= Len(timers)
             => /\ notification'.message = notification.message
                /\ notification'.type = notification.type
          /\ Len(timers') > Len(timers)
             => /\ notification'.visible
                /\ timers'[Len(timers')] = NotifyMs]_vars

\* C17 witness: a second notification was shown while the timer of the first
\* had 1000 ms left; the content shown is that of the second
C17_SecondNotificationShown ==
    /\ timers = <<1000, 2000>>
    /\ notification = [message |-> "Cannot change: camera is in use",
                       type |-> "error", visible |-> TRUE]
    /\ ~exited

\* C18: when the current value of a Select row is not in its options list,
\* the adjustment takes the current index to be 0: Right (delta +1) sends the
\* second option, options[1], and Left (delta -1) sends the first, options[0].
C18_AbsentValueCountsAsFirst ==
    [][(/\ opsDone' # opsDone
        /\ dialog.type = "none"
        /\ HasCurrentSetting
        /\ currentSetting.type = "select"
        /\ \A i \in 1..Len(currentSetting.options) :
              currentSetting.options[i] # currentSetting.value
        /\ caller' \in {"leftArrow", "rightArrow"})
       => LET c == currentSetting
              call == calls'[1]
              Sent(v) ==
                  CASE c.key = "resolution" ->
                         /\ call.fn = "setVideoFormat"
                         /\ <<call.args[1], call.args[2]>> = SplitResolution(v)
                    [] c.key = "format" ->
                         call.fn = "setVideoFormat" /\ call.args[3] = v
                    [] c.key = "framerate" ->
                         call.fn = "setFrameRate" /\ call.args = <<ParseFrameRate(v)>>
                    [] c.key = "powerLineFrequency" ->
                         /\ call.fn = "setPowerLineFrequency"
                         /\ call.args = <<CASE v = "Disabled" -> 0
                                            [] v = "50Hz" -> 1
                                            [] v = "60Hz" -> 2>>
          IN  Sent(c.options[IF caller' = "rightArrow" THEN 2 ELSE 1])]_vars

\* C19: round trip of the power-line frequency: when the user selects
\* Disabled, 50Hz or 60Hz, the set succeeds (the device then holds 0, 1 or 2)
\* and the resync reads the device, the row shows the option that was selected.
C19_PowerLineRoundTrip ==
    [][(/\ opsDone' # opsDone
        /\ dialog.type = "none"
        /\ HasCurrentSetting
        /\ currentSetting.key = "powerLineFrequency"
        /\ caller' \in AdjustKeys
        /\ calls'[1].ret = TRUE
        /\ currentSettings' = getCurrentSettings(dev', Controls))
       => LET sent == calls'[1].args[1]
              selected == CASE sent = 0 -> "Disabled"
                            [] sent = 1 -> "50Hz"
                            [] sent = 2 -> "60Hz"
          IN  /\ dev'.ctl["power_line_frequency"] = sent
              /\ FindSetting(currentSettings', currentFormat',
                             "powerLineFrequency").value = selected]_vars

\* C20: in every reachable state, whatever adjust key is pressed, the handler
\* does not call setExposureValue while the local autoExposure is true, nor
\* setFocusValue while autoFocus is true, nor setWhiteBalanceValue while
\* autoWhiteBalance is true.
C20_NoManualSetWhileAuto ==
    LET allowed(log) ==
            \A i \in 1..Len(log) :
               /\ log[i].fn = "setExposureValue" => ~currentSettings.autoExposure
               /\ log[i].fn = "setFocusValue" => ~currentSettings.autoFocus
               /\ log[i].fn = "setWhiteBalanceValue" => ~currentSettings.autoWhiteBalance
    IN  \A k \in AdjustKeys : allowed(useInput(Cur, k, NoInputs).calls)

\* C20 witness: autoExposure has been turned on and the cursor stands where
\* the exposureValue row was; Right there acts on autoFocus
C20_CursorPastAutoExposure ==
    /\ currentSettings.autoExposure
    /\ ~currentSettings.autoFocus
    /\ selectedIndex = 9
    /\ dialog.type = "none"
    /\ ~exited
    /\ opsDone = 1
    /\ useInput(Cur, "rightArrow", NoInputs).calls[1].fn = "setAutoFocus"

\* C21: when a single-setting apply fails in any way other than DEVICE_BUSY
\* on a format call (a scalar or power-line setter returns false,
\* setVideoFormat or setFrameRate returns UNKNOWN), the notification, its
\* timers and the dialog are left as they were, and currentSettings,
\* currentFormat and deviceBusy are re-read from the backend after the call.
C21_SilentFailureResyncs ==
    [][(/\ opsDone' # opsDone
        /\ dialog.type = "none"
        /\ caller' \in AdjustKeys
        /\ IF calls'[1].fn \in {"setVideoFormat", "setFrameRate"}
           THEN calls'[1].ret.error = "UNKNOWN"
           ELSE calls'[1].ret = FALSE)
       => /\ notification' = notification
          /\ timers' = timers
          /\ dialog' = dialog
          /\ Len(calls') = 4
          /\ calls'[2].fn = "getCurrentSettings"
          /\ calls'[3].fn = "getCurrentVideoFormat"
          /\ calls'[4].fn = "getDeviceStatus"
          /\ currentSettings' = calls'[2].ret
          /\ currentFormat' = calls'[3].ret
          /\ deviceBusy' = calls'[4].ret.inUse]_vars

\* C21 witness: setBrightness returned false, nothing was shown, and the
\* resync that followed found the device in use
C21_BrightnessFailedSilently ==
    /\ caller = "rightArrow"
    /\ Len(calls) = 4
    /\ calls[1].fn = "setBrightness"
    /\ calls[1].ret = FALSE
    /\ notification = [message |-> "", type |-> "info", visible |-> FALSE]
    /\ timers = <<>>
    /\ dialog.type = "none"
    /\ deviceBusy

\* C22: while deviceBusy is true and no dialog is active, an adjust key on a
\* row other than resolution, format and framerate (every Range and Toggle
\* row, powerLineFrequency) is not rejected: the handler calls the row's
\* setter, resyncs, and shows no notification.
C22_BusyLeavesOthersAdjustable ==
    (/\ dialog.type = "none"
     /\ ~exited
     /\ deviceBusy
     /\ HasCurrentSetting
     /\ currentSetting.key \notin {"resolution", "format", "framerate"})
    => LET applied(c) ==
               \A k \in AdjustKeys : \A t \in Outcomes(k) :
                  /\ Len(t.calls) = 4
                  /\ t.calls[1].fn = IF c.key = "powerLineFrequency"
                                     THEN "setPowerLineFrequency"
                                     ELSE SettingSetter(c.key)
                  /\ t.calls[2].fn = "getCurrentSettings"
                  /\ t.calls[3].fn = "getCurrentVideoFormat"
                  /\ t.calls[4].fn = "getDeviceStatus"
                  /\ t.currentSettings = t.calls[2].ret
                  /\ t.currentFormat = t.calls[3].ret
                  /\ t.deviceBusy = t.calls[4].ret.inUse
                  /\ t.notification = notification
                  /\ t.timers = timers
       IN  applied(currentSetting)

\* C22 witness: the frame rate was refused because the camera is in use, and
\* Right on brightness has then called setBrightness all the same
C22_BrightnessSetWhileBusy ==
    /\ opsDone = 2
    /\ caller = "rightArrow"
    /\ Len(calls) = 4
    /\ calls[1].fn = "setBrightness"
    /\ notification.message = "Cannot change: camera is in use"

\* C23: with no dialog active, Up sets selectedIndex to max(0, selectedIndex - 1)
\* and Down to min(visibleCount - 1, selectedIndex + 1); after either key the
\* index lies in [0, visibleCount - 1]; neither key makes a backend call or
\* changes settings, format, deviceBusy, dialog or notification.
C23_NavigationClamped ==
    (dialog.type = "none" /\ ~exited)
    => LET visibleCount == Len(visibleSettings(currentSettings, currentFormat))
           moved(t, index) ==
               /\ t = [Cur EXCEPT !.calls = <<>>, !.selectedIndex = index]
               /\ 0 <= t.selectedIndex
               /\ t.selectedIndex <= visibleCount - 1
       IN  /\ moved(useInput(Cur, "upArrow", NoInputs), Max(0, selectedIndex - 1))
           /\ moved(useInput(Cur, "downArrow", NoInputs),
                    Min(visibleCount - 1, selectedIndex + 1))

\* C24: PageUp or PageDown on a Select row whose value is one of its options
\* never moves the chosen option by more than one position in the options
\* list: the backend call made is the one of the current option or of a
\* neighbour (so never first to last or back, in a list of more than two).
C24_NoPageJumpOnSelect ==
    [][(/\ opsDone' # opsDone
        /\ dialog.type = "none"
        /\ HasCurrentSetting
        /\ currentSetting.type = "select"
        /\ IndexOf(currentSetting.options, currentSetting.value) >= 0
        /\ caller' \in {"pageUp", "pageDown"})
       => LET c == currentSetting
              n == Len(c.options)
              at == IndexOf(c.options, c.value) + 1
              call == calls'[1]
              Sent(v) ==
                  CASE c.key = "resolution" ->
                         /\ call.fn = "setVideoFormat"
                         /\ <<call.args[1], call.args[2]>> = SplitResolution(v)
                    [] c.key = "format" ->
                         call.fn = "setVideoFormat" /\ call.args[3] = v
                    [] c.key = "framerate" ->
                         call.fn = "setFrameRate" /\ call.args = <<ParseFrameRate(v)>>
                    [] c.key = "powerLineFrequency" ->
                         /\ call.fn = "setPowerLineFrequency"
                         /\ call.args = <<CASE v = "Disabled" -> 0
                                            [] v = "50Hz" -> 1
                                            [] v = "60Hz" -> 2>>
          IN  \E i \in 1..n : (i - at) \in {-1, 0, 1} /\ Sent(c.options[i])]_vars

\* C25: Enter (delta 0) on a Range or Select row never changes the row's
\* value, whatever the current value is (one absent from the options list
\* included): the value sent to the backend is the current value, and when
\* the set succeeds and the resync reads the device the row shows it again.
C25_EnterKeepsValue ==
    [][(/\ opsDone' # opsDone
        /\ dialog.type = "none"
        /\ HasCurrentSetting
        /\ currentSetting.type \in {"range", "select"}
        /\ caller' = "return")
       => LET c == currentSetting
              call == calls'[1]
              Sent(v) ==
                  CASE c.type = "range" -> call.args = <<v>>
                    [] c.key = "resolution" ->
                         /\ call.fn = "setVideoFormat"
                         /\ <<call.args[1], call.args[2]>> = SplitResolution(v)
                    [] c.key = "format" ->
                         call.fn = "setVideoFormat" /\ call.args[3] = v
                    [] c.key = "framerate" ->
                         call.fn = "setFrameRate" /\ call.args = <<ParseFrameRate(v)>>
                    [] c.key = "powerLineFrequency" ->
                         /\ call.fn = "setPowerLineFrequency"
                         /\ v \in {"Disabled", "50Hz", "60Hz"}
                         /\ call.args = <<CASE v = "Disabled" -> 0
                                            [] v = "50Hz" -> 1
                                            [] OTHER -> 2>>
              succeeded == IF call.fn \in {"setVideoFormat", "setFrameRate"}
                           THEN call.ret.success ELSE call.ret
          IN  /\ Sent(c.value)
              /\ (/\ succeeded
                  /\ currentSettings' = getCurrentSettings(dev', Controls)
                  /\ currentFormat' = dev'.fmt)
                 => FindSetting(currentSettings', currentFormat', c.key).value = c.value]_vars

\* C26: in the Help, Info and Error dialogs each of Enter, Escape and q sets
\* the dialog to None and does nothing else: no backend call, no exit, no
\* timer, and selectedIndex, settings, format, deviceBusy and notification are
\* unchanged.  In every reachable state with a dialog active (Confirm
\* included) Escape leaves no dialog active.
C26_CloseKeysOnlyClose ==
    /\ (dialog.type \in {"help", "info", "error"} /\ ~exited)
       => \A k \in CloseKeys : \A t \in Outcomes(k) :
             t = [Cur EXCEPT !.calls = <<>>, !.dialog = NoDialog]
    /\ (dialog.type # "none" /\ ~exited)
       => \A t \in Outcomes("escape") : t.dialog.type = "none"

\* C26 witness: Optimize ended in the Error dialog, a key has closed it, and
\* the notification is still the one Optimize began with
C26_ErrorDialogClosed ==
    /\ dialog.type = "none"
    /\ opsDone = 1
    /\ calls = <<>>
    /\ notification.message = "Applying optimal settings..."
    /\ ~exited

\* C27: once q, Q or Ctrl-C has been handled on the main screen (exit() has
\* been called), no notification timer that is still pending runs its expiry
\* callback: no step taken after the exit removes a timer from the pending ones.
C27_NoExpiryAfterExit ==
    [][exited => Len(timers') = Len(timers)]_vars

\* C28: a format change passes the component the user did not touch as the
\* current VideoFormat record holds it: an adjust of resolution calls
\* setVideoFormat with currentFormat.pixelFormat, an adjust of the pixel format
\* calls it with currentFormat.width and currentFormat.height.  Both Select
\* rows display that one record.
C28_UntouchedComponentKept ==
    /\ [](/\ SplitResolution(FindSetting(currentSettings, currentFormat, "resolution").value)
             = <<currentFormat.width, currentFormat.height>>
          /\ FindSetting(currentSettings, currentFormat, "format").value
             = currentFormat.pixelFormat)
    /\ [][(/\ opsDone' # opsDone
           /\ dialog.type = "none"
           /\ HasCurrentSetting
           /\ currentSetting.key \in {"resolution", "format"}
           /\ caller' \in AdjustKeys)
          => /\ calls'[1].fn = "setVideoFormat"
             /\ currentSetting.key = "resolution"
                => calls'[1].args[3] = currentFormat.pixelFormat
             /\ currentSetting.key = "format"
                => /\ calls'[1].args[1] = currentFormat.width
                   /\ calls'[1].args[2] = currentFormat.height]_vars

\* C28 witness: Right on the resolution row of a device in 1280x720 MJPG has
\* asked for 1920x1080 in MJPG
C28_ResolutionChangedInMjpg ==
    /\ caller = "rightArrow"
    /\ calls # <<>>
    /\ calls[1].fn = "setVideoFormat"
    /\ calls[1].args = <<1920, 1080, "MJPG">>
    /\ calls[1].ret.success
    /\ currentFormat = [width |-> 1920, height |-> 1080, pixelFormat |-> "MJPG", frameRate |-> 15]

\* C29: the dependency-lock rejection is unreachable: in no reachable state
\* is the notification "Cannot adjust: <auto setting> is enabled" on display,
\* and in no reachable state does an adjust key produce it.
C29_LockRejectionUnreachable ==
    /\ notification.message \notin LockMessages
    /\ \A k \in AdjustKeys :
          useInput(Cur, k, NoInputs).notification.message \notin LockMessages

\* C29 witness: Optimize has turned the three auto flags on, so exposureValue
\* is locked; the cursor stands at the index that row had, and the row there
\* is now autoFocus
C29_CursorWhereLockedRowWas ==
    /\ calls # <<>>
    /\ calls[1].fn = "applyOptimalSettings"
    /\ isManualControlDisabled(currentSettings, "exposureValue")
    /\ selectedIndex = 9
    /\ HasCurrentSetting
    /\ currentSetting.key = "autoFocus"
    /\ dialog.type = "none"

\* C30: deviceBusy starts false and changes only in the resync that follows
\* a call that writes to the device, where it takes what getDeviceStatus
\* returned.  So the first adjust of resolution, format or framerate reaches
\* the backend; and once the flag is true, the adjusts of those rows are
\* refused without a resync, and the step that clears it is an adjust of
\* another row or Optimize/Reset.
C30_BusyFlagOnlyFromResync ==
    /\ [](opsDone = 0 => ~deviceBusy)
    /\ []((/\ opsDone = 0
           /\ dialog.type = "none"
           /\ ~exited
           /\ HasCurrentSetting
           /\ currentSetting.key \in {"resolution", "format", "framerate"})
          => \A k \in AdjustKeys :
                useInput(Cur, k, NoInputs).calls[1].fn \in {"setVideoFormat", "setFrameRate"})
    /\ [][/\ opsDone' = opsDone => deviceBusy' = deviceBusy
          /\ opsDone' # opsDone
             => /\ calls'[Len(calls')].fn = "getDeviceStatus"
                /\ deviceBusy' = calls'[Len(calls')].ret.inUse
          /\ (deviceBusy /\ opsDone' # opsDone)
             => \/ caller' \in {"o", "O", "y", "Y"}
                \/ /\ caller' \in AdjustKeys
                   /\ HasCurrentSetting
                   /\ currentSetting.key \notin {"resolution", "format", "framerate"}]_vars

\* C30 witness: the flag was true when a frame-rate adjust was refused, and
\* the resync after a later setBrightness found the device free
C30_BusyClearedByOtherSetting ==
    /\ opsDone = 2
    /\ ~deviceBusy
    /\ Len(calls) = 4
    /\ calls[1].fn = "setBrightness"
    /\ calls[4].ret.inUse = FALSE
    /\ notification.message = "Cannot change: camera is in use"

\* C31: an adjust key on an auto-flag row (a toggle) leaves selectedIndex as
\* it was and within the visible settings, and after the resync the row under
\* the cursor is still that auto flag, whether its manual companion became
\* hidden or visible; an adjust key on any row leaves the same key under the
\* cursor (only Optimize and Reset change it).
C31_ToggleKeepsSelection ==
    [][(/\ opsDone' # opsDone
        /\ dialog.type = "none"
        /\ HasCurrentSetting
        /\ caller' \in AdjustKeys)
       => LET visibleCount == Len(visibleSettings(currentSettings', currentFormat'))
              inRange == 0 <= selectedIndex' /\ selectedIndex' <= visibleCount - 1
          IN  /\ selectedIndex' = selectedIndex
              /\ currentSetting.type = "toggle" => inRange
              /\ inRange
                 => visibleSettings(currentSettings', currentFormat')[selectedIndex' + 1].key
                    = currentSetting.key]_vars

====
